---- MODULE Spec2Model ----
(***************************************************************************)
(* Model of the isometric portfolio city: the winding-path generator, the  *)
(* grid editor and the cyclist (path-follow actor) with its checkpoints.   *)
(*                                                                         *)
(* Progress is a real number in the program.  It is modelled in fixed      *)
(* point: one unit of `progress' is 1/Resolution of a path index, and a    *)
(* frame's speed * delta is any whole number of units in 0..MaxStep.       *)
(* React state updates issued by a handler are applied within the action   *)
(* that models the handler (the program is single threaded and re-renders  *)
(* between two callbacks).                                                 *)
(***************************************************************************)
EXTENDS Integers, Sequences, FiniteSets

\* ------------------------------------------------------------------ bounds
\* progress units per path index (fixed-point resolution of the real progress)
Resolution == 2
\* largest speed * delta of one frame, in progress units
MaxStep == 3
\* the restart button is pressed at most this many times
MaxCycleKey == 1
\* the day timer is followed up to this day
MaxDay == 2

\* ------------------------------------------------------------ program data
GRID_SIZE == 15
INITIAL_MONEY == 999999999
INITIAL_POPULATION == 340
CHECKPOINT_COUNT == 5

BuildingType == {"None", "Road", "Residential", "Commercial", "Industrial", "Park"}

\* the toolbar buttons
tools == <<"None", "Road", "Residential", "Commercial", "Industrial", "Park">>

\* the entries with ids counted from 1
PORTFOLIO_CONTENT_IdsFromOne == <<1, 2, 3, 4, 5>>

\* ids of the PORTFOLIO_CONTENT entries, in array order (index 0 first)
PORTFOLIO_CONTENT == <<0, 1, 2, 3, 4>>

Coords == 0 .. (GRID_SIZE - 1)

\* number | null: null is the empty set, the number k is {k}
null == {}

Point(px, py) == [x |-> px, y |-> py]

start == Point(0, 14)
end == Point(14, 0)

\* the waypoint list without its last entry
waypointsWithoutEnd ==
    << start,
       Point(2, 12), Point(6, 12), Point(6, 9), Point(2, 9), Point(2, 5),
       Point(10, 5), Point(10, 10), Point(13, 10), Point(13, 3) >>

\* the waypoint list with its ninth point one column right of the grid
waypointsOffGrid ==
    << start,
       Point(2, 12), Point(6, 12), Point(6, 9), Point(2, 9), Point(2, 5),
       Point(10, 5), Point(10, 10), Point(15, 10), Point(13, 3),
       end >>

waypoints ==
    << start,
       Point(2, 12), Point(6, 12), Point(6, 9), Point(2, 9), Point(2, 5),
       Point(10, 5), Point(10, 10), Point(13, 10), Point(13, 3),
       end >>

\* tiles the pointer is pressed on.  (1,14) is on the path when the first
\* tie-break moves along x and is a rolled tile otherwise; (13,0) is on the
\* path when the last tie-break moves along y and is in the clear zone otherwise
ClickCells == {Point(1, 14), Point(13, 0)}

\* the Math.random() rolls of createInitialState followed here: one outcome
\* per tile, each of None, Residential, Commercial and Park on some tiles
BackgroundRoll(px, py) ==
    CASE (px + 2 * py) % 4 = 0 -> "None"
      [] (px + 2 * py) % 4 = 1 -> "Residential"
      [] (px + 2 * py) % 4 = 2 -> "Commercial"
      [] OTHER -> "Park"

\* ------------------------------------------------------------------ helpers
Abs(n) == IF n < 0 THEN -n ELSE n
Sign(n) == IF n > 0 THEN 1 ELSE IF n < 0 THEN -1 ELSE 0

\* Math.floor of a progress value, as a path index
Floor(p) == p \div Resolution

\* indexOf counting positions from 1
IndexOfOneBased(seq, v) ==
    IF \E k \in 1 .. Len(seq) : seq[k] = v
    THEN CHOOSE k \in 1 .. Len(seq) : seq[k] = v /\ \A j \in 1 .. (k - 1) : seq[j] # v
    ELSE -1

\* Array.prototype.indexOf on a sequence, 0-based, -1 when absent
IndexOf(seq, v) ==
    IF \E i \in 1 .. Len(seq) : seq[i] = v
    THEN (CHOOSE i \in 1 .. Len(seq) : seq[i] = v /\ \A j \in 1 .. (i - 1) : seq[j] # v) - 1
    ELSE -1

VARIABLES
    pc,                       \* "gen": inside generateWindingPath, "run": App mounted
    i,                        \* generateWindingPath: index of the segment being connected (0-based)
    curr,                     \* connectPoints: the current cell
    path,                     \* fullPath of generateWindingPath, then initialState.path
    grid,                     \* App: grid[y][x] is a tile record
    stats,                    \* App: money, population, day
    selectedTool,             \* App
    activeCheckpointIndex,    \* App: null or {k}, k the checkpoint ordinal
    cycleKey,                 \* App: key of the mounted Cyclist
    progress,                 \* Cyclist: progress, in units of 1/Resolution
    lastTriggeredCheckpoint,  \* Cyclist ref
    hasFinished,              \* Cyclist ref
    emitted,                  \* callbacks the last step emitted to App
    visitFires,               \* onReachCheckpoint calls while Floor(progress) kept its value
    finishCalls,              \* onFinish calls since the Cyclist was mounted
    fired                     \* ordinals passed to onReachCheckpoint since the mount, in
                              \* order, as recorded by useFrameSlow

vars == << pc, i, curr, path, grid, stats, selectedTool,
           activeCheckpointIndex, cycleKey, progress, lastTriggeredCheckpoint,
           hasFinished, emitted, visitFires, finishCalls, fired >>

genVars == << i, curr >>
appVars == << grid, stats, selectedTool, activeCheckpointIndex, cycleKey >>
cyclistVars == << progress, lastTriggeredCheckpoint, hasFinished >>
historyVars == << visitFires, finishCalls, fired >>

\* --------------------------------------------------------- path generation
\* connectPoints, the choice of the axis: rnd is the outcome of Math.random() > 0.5
moveXChoice(dx, dy, rnd) ==
    IF Abs(dx) > Abs(dy) THEN TRUE
    ELSE IF Abs(dy) > Abs(dx) THEN FALSE
    ELSE rnd

\* connectPoints with the second branch not chained by else: a tie moves both axes
connectStepNoElse(c, p2, rnd) ==
    LET dx == p2.x - c.x
        dy == p2.y - c.y
        moveX == moveXChoice(dx, dy, rnd)
        c1 == IF moveX /\ dx # 0 THEN [c EXCEPT !.x = @ + Sign(dx)] ELSE c
    IN  IF dy # 0 THEN [c1 EXCEPT !.y = @ + Sign(dy)]
        ELSE IF dx # 0 /\ c1 = c THEN [c1 EXCEPT !.x = @ + Sign(dx)]
        ELSE c1

\* connectPoints with the x move subtracting Math.sign(dx)
connectStepAway(c, p2, rnd) ==
    LET dx == p2.x - c.x
        dy == p2.y - c.y
        moveX == moveXChoice(dx, dy, rnd)
    IN  IF moveX /\ dx # 0 THEN [c EXCEPT !.x = @ - Sign(dx)]
        ELSE IF dy # 0 THEN [c EXCEPT !.y = @ + Sign(dy)]
        ELSE IF dx # 0 THEN [c EXCEPT !.x = @ - Sign(dx)]
        ELSE c

\* connectPoints, the body of one loop iteration: the cell after the move
connectStep(c, p2, rnd) ==
    LET dx == p2.x - c.x
        dy == p2.y - c.y
        moveX == moveXChoice(dx, dy, rnd)
    IN  IF moveX /\ dx # 0 THEN [c EXCEPT !.x = @ + Sign(dx)]
        ELSE IF dy # 0 THEN [c EXCEPT !.y = @ + Sign(dy)]
        ELSE IF dx # 0 THEN [c EXCEPT !.x = @ + Sign(dx)]
        ELSE c

\* connectPoints(c, p2) when every tie-break has the outcome rnd: the segment
RECURSIVE segment(_, _, _)
segment(c, p2, rnd) ==
    IF c.x # p2.x \/ c.y # p2.y
    THEN LET n == connectStep(c, p2, rnd) IN << n >> \o segment(n, p2, rnd)
    ELSE << >>

\* generateWindingPath(start, end) when every tie-break has the outcome rnd:
\* the path after the segments k .. Len(waypoints) - 1 are pushed onto fullPath
RECURSIVE pushSegments(_, _, _)
pushSegments(fullPath, k, rnd) ==
    IF k < Len(waypoints)
    THEN pushSegments(fullPath \o segment(waypoints[k], waypoints[k + 1], rnd), k + 1, rnd)
    ELSE fullPath

windingPath(rnd) == pushSegments(<< start >>, 1, rnd)

\* the path set of createInitialState (keys "x,y" are one-to-one with cells)
pathSet(p) == {p[k] : k \in 1 .. Len(p)}

\* the decimal digits of a number that is not negative, as a template string prints it
RECURSIVE decimal(_)
decimal(n) == IF n < 10 THEN << n >> ELSE decimal(n \div 10) \o << n % 10 >>

\* the key `${x},${y}` of a cell: its characters, the comma written -1
cellKey(px, py) == decimal(px) \o << -1 >> \o decimal(py)

\* new Set(path.map(p => `${p.x},${p.y}`))
pathKeys(p) == {cellKey(p[k].x, p[k].y) : k \in 1 .. Len(p)}

\* createInitialState testing the clear zone before the path set
initialTypeClearZoneFirst(p, px, py) ==
    IF px >= 12 /\ py <= 2 THEN "None"
    ELSE IF Point(px, py) \in pathSet(p) THEN "Road"
    ELSE BackgroundRoll(px, py)

\* createInitialState, the type of the tile at (px, py)
initialType(p, px, py) ==
    IF Point(px, py) \in pathSet(p) THEN "Road"
    ELSE IF px >= 12 /\ py <= 2 THEN "None"
    ELSE BackgroundRoll(px, py)

\* createInitialState, the two loops that fill the grid
initialGrid(p) ==
    [gy \in Coords |->
        [gx \in Coords |-> [x |-> gx, y |-> gy, buildingType |-> initialType(p, gx, gy)]]]

\* ------------------------------------------------------ checkpoints, actor
\* getCheckpointIndices with the loop running from 0: the start is not skipped
getCheckpointIndicesFromZero(totalPathLength) ==
    [k \in 1 .. CHECKPOINT_COUNT |-> (totalPathLength * (k - 1)) \div (CHECKPOINT_COUNT + 1)]

\* getCheckpointIndices spreading the checkpoints up to the last path index
getCheckpointIndicesThroughEnd(totalPathLength) ==
    [k \in 1 .. CHECKPOINT_COUNT |-> ((totalPathLength - 1) * k) \div CHECKPOINT_COUNT]

\* getCheckpointIndices: Math.floor(totalPathLength * (k / (CHECKPOINT_COUNT + 1))), k = 1..5
getCheckpointIndices(totalPathLength) ==
    [k \in 1 .. CHECKPOINT_COUNT |-> (totalPathLength * k) \div (CHECKPOINT_COUNT + 1)]

checkpointIndices == getCheckpointIndices(Len(path))

\* the state of a freshly mounted Cyclist (useState(0), useRef(-1), useRef(false))
mountCyclist == [progress |-> 0, lastTriggeredCheckpoint |-> -1, hasFinished |-> FALSE]

\* useFrame, movement: does newProgress reach the end of the path
reachesEnd(newProgress, totalDistance) == newProgress >= (totalDistance - 1) * Resolution

\* setProgress without the stop at the end
nextProgressNoClamp(newProgress, totalDistance) == newProgress

\* setProgress that starts the path over at the end
nextProgressWrap(newProgress, totalDistance) ==
    IF reachesEnd(newProgress, totalDistance) THEN 0 ELSE newProgress

\* setProgress that stops at totalDistance instead of totalDistance - 1
nextProgressPastEnd(newProgress, totalDistance) ==
    IF reachesEnd(newProgress, totalDistance)
    THEN totalDistance * Resolution
    ELSE newProgress

\* useFrame, movement: the value handed to setProgress
nextProgress(newProgress, totalDistance) ==
    IF reachesEnd(newProgress, totalDistance)
    THEN (totalDistance - 1) * Resolution
    ELSE newProgress

\* the checkpoint trigger without the lastTriggeredCheckpoint guard
triggersUnguarded(cpIndex, last, currentIndex) == cpIndex # -1

\* useFrame, checkpoint trigger: is onReachCheckpoint called for currentIndex
triggers(cpIndex, last, currentIndex) == cpIndex # -1 /\ last # currentIndex

\* the checkpoint trigger that never records the index it fired for
nextLastTriggeredNeverSet(cpIndex, last, currentIndex) == -1

\* useFrame, checkpoint trigger: the new value of lastTriggeredCheckpoint
nextLastTriggered(cpIndex, last, currentIndex) ==
    IF cpIndex # -1 THEN currentIndex ELSE -1

isPaused == activeCheckpointIndex # null

\* the movement test without !hasFinished.current
isMovingWhenFinished == ~isPaused

\* the movement test without !isPaused
isMovingWhenPaused == ~hasFinished

\* useFrame, movement: if (!isPaused && !hasFinished.current)
isMoving == ~isPaused /\ ~hasFinished

\* ------------------------------------------------------------------ initial
\* the values of the useState and useRef hooks of App and Cyclist at mount
mounted ==
    /\ stats = [money |-> INITIAL_MONEY, population |-> INITIAL_POPULATION, day |-> 1]
    /\ selectedTool = "Commercial"
    /\ activeCheckpointIndex = null
    /\ cycleKey = 0
    /\ progress = mountCyclist.progress
    /\ lastTriggeredCheckpoint = mountCyclist.lastTriggeredCheckpoint
    /\ hasFinished = mountCyclist.hasFinished
    /\ emitted = {}
    /\ visitFires = 0
    /\ finishCalls = 0
    /\ fired = << >>

\* App is mounted: createInitialState has run, with one outcome for all its
\* tie-breaks (the path then turns at its first or at its last chance)
Init ==
    /\ pc = "run"
    /\ i = Len(waypoints) - 1
    /\ curr = end
    /\ \E rnd \in BOOLEAN : path = windingPath(rnd)
    /\ grid = initialGrid(path)
    /\ mounted

\* generateWindingPath is entered: every outcome of every tie-break is followed
InitPath ==
    /\ pc = "gen"
    /\ i = 0
    /\ curr = waypoints[1]
    /\ path = << start >>
    /\ grid = << >>
    /\ mounted

\* ------------------------------------------------------------------ actions
\* one iteration of the while loop of connectPoints (segment i, toward waypoints[i+1])
connectPoints ==
    /\ pc = "gen"
    /\ i < Len(waypoints) - 1
    /\ curr # waypoints[i + 2]
    /\ \E rnd \in BOOLEAN :
          /\ curr' = connectStep(curr, waypoints[i + 2], rnd)
          /\ path' = Append(path, curr')
    /\ UNCHANGED << pc, i, appVars, cyclistVars, emitted, historyVars >>

\* the for loop of generateWindingPath: segment i is complete, go to the next one
generateWindingPath ==
    /\ pc = "gen"
    /\ i < Len(waypoints) - 1
    /\ curr = waypoints[i + 2]
    /\ i' = i + 1
    /\ curr' = waypoints[i + 2]
    /\ UNCHANGED << pc, path, appVars, cyclistVars, emitted, historyVars >>

\* generateWindingPath has returned: createInitialState builds the grid, App mounts
createInitialState ==
    /\ pc = "gen"
    /\ i = Len(waypoints) - 1
    /\ grid' = initialGrid(path)
    /\ pc' = "run"
    /\ UNCHANGED << genVars, path, stats, selectedTool, activeCheckpointIndex, cycleKey,
                    cyclistVars, emitted, historyVars >>

\* handleTileClick without the isPath test of the bulldozer
clickedGridBulldozeAny(g, p, tool, px, py) ==
    LET currentTile == g[py][px]
    IN  IF tool = "None"
        THEN [g EXCEPT ![py][px] = [currentTile EXCEPT !.buildingType = "None"]]
        ELSE IF currentTile.buildingType = "None"
             THEN [g EXCEPT ![py][px] = [currentTile EXCEPT !.buildingType = tool]]
             ELSE g

\* handleTileClick without the test that the tile is empty
clickedGridOverwrite(g, p, tool, px, py) ==
    LET currentTile == g[py][px]
        isPath == \E k \in 1 .. Len(p) : p[k].x = px /\ p[k].y = py
    IN  IF tool = "None"
        THEN IF ~isPath
             THEN [g EXCEPT ![py][px] = [currentTile EXCEPT !.buildingType = "None"]]
             ELSE g
        ELSE [g EXCEPT ![py][px] = [currentTile EXCEPT !.buildingType = tool]]

\* handleTileClick writing newGrid[x][y] instead of newGrid[y][x]
clickedGridTransposed(g, p, tool, px, py) ==
    LET currentTile == g[py][px]
        isPath == \E k \in 1 .. Len(p) : p[k].x = px /\ p[k].y = py
    IN  IF tool = "None"
        THEN IF ~isPath
             THEN [g EXCEPT ![px][py] = [currentTile EXCEPT !.buildingType = "None"]]
             ELSE g
        ELSE IF currentTile.buildingType = "None"
             THEN [g EXCEPT ![px][py] = [currentTile EXCEPT !.buildingType = tool]]
             ELSE g

\* handleTileClick(px, py): the new grid
clickedGrid(g, p, tool, px, py) ==
    LET currentTile == g[py][px]
        isPath == \E k \in 1 .. Len(p) : p[k].x = px /\ p[k].y = py
    IN  IF tool = "None"
        THEN IF ~isPath
             THEN [g EXCEPT ![py][px] = [currentTile EXCEPT !.buildingType = "None"]]
             ELSE g
        ELSE IF currentTile.buildingType = "None"
             THEN [g EXCEPT ![py][px] = [currentTile EXCEPT !.buildingType = tool]]
             ELSE g

\* handleTileClick that pays 100 for a change of the grid
handleTileClickAtCharging(px, py) ==
    /\ pc = "run"
    /\ grid' = clickedGrid(grid, path, selectedTool, px, py)
    /\ stats' = IF grid' # grid THEN [stats EXCEPT !.money = @ - 100] ELSE stats
    /\ emitted' = {}
    /\ UNCHANGED << pc, genVars, path, selectedTool, activeCheckpointIndex,
                    cycleKey, cyclistVars, historyVars >>

\* handleTileClick that puts the tool down after it has changed the grid
handleTileClickAtDeselecting(px, py) ==
    /\ pc = "run"
    /\ grid' = clickedGrid(grid, path, selectedTool, px, py)
    /\ selectedTool' = IF grid' # grid THEN "None" ELSE selectedTool
    /\ emitted' = {}
    /\ UNCHANGED << pc, genVars, path, stats, activeCheckpointIndex,
                    cycleKey, cyclistVars, historyVars >>

\* onPointerDown of the tile at (px, py)
handleTileClickAt(px, py) ==
    /\ pc = "run"
    /\ UNCHANGED << pc, genVars, path, stats, selectedTool, activeCheckpointIndex,
                    cycleKey, cyclistVars, historyVars >>
    /\ emitted' = {}
    /\ grid' = clickedGrid(grid, path, selectedTool, px, py)

handleTileClick == \E c \in ClickCells : handleTileClickAt(c.x, c.y)

\* a toolbar button; the toolbar is rendered only while no card is shown
onSelectTool ==
    /\ pc = "run"
    /\ activeCheckpointIndex = null
    /\ \E k \in 1 .. Len(tools) : selectedTool' = tools[k]
    /\ emitted' = {}
    /\ UNCHANGED << pc, genVars, path, grid, stats, activeCheckpointIndex, cycleKey,
                    cyclistVars, historyVars >>

\* a game loop that also builds the grid anew every day
gameLoopRegenerates ==
    /\ pc = "run"
    /\ stats.day < MaxDay
    /\ stats' = [stats EXCEPT !.day = @ + 1]
    /\ grid' = initialGrid(path)
    /\ emitted' = {}
    /\ UNCHANGED << pc, genVars, path, selectedTool, activeCheckpointIndex,
                    cycleKey, cyclistVars, historyVars >>

\* the setInterval callback of the game loop
gameLoop ==
    /\ pc = "run"
    /\ stats.day < MaxDay
    /\ stats' = [stats EXCEPT !.day = @ + 1]
    /\ emitted' = {}
    /\ UNCHANGED << pc, genVars, path, grid, selectedTool, activeCheckpointIndex,
                    cycleKey, cyclistVars, historyVars >>

\* the body of the Cyclist.useFrame callback with speed * delta = step, and the
\* App callbacks it calls
frame(step) ==
    /\ pc = "run"
    /\ Len(path) >= 2
    /\ IF isMoving
       THEN LET totalDistance == Len(path)
                newProgress == progress + step
                finish == reachesEnd(newProgress, totalDistance)
                currentIndex == Floor(newProgress)
                cpIndex == IndexOf(checkpointIndices, currentIndex)
                fire == triggers(cpIndex, lastTriggeredCheckpoint, currentIndex)
            IN  /\ progress' = nextProgress(newProgress, totalDistance)
                /\ hasFinished' = (hasFinished \/ finish)
                /\ lastTriggeredCheckpoint' =
                      nextLastTriggered(cpIndex, lastTriggeredCheckpoint, currentIndex)
                /\ activeCheckpointIndex' =
                      IF fire THEN {cpIndex} ELSE activeCheckpointIndex
                /\ emitted' = (IF finish THEN {<< "onFinish", -1 >>} ELSE {})
                              \cup (IF fire THEN {<< "onReachCheckpoint", cpIndex >>} ELSE {})
                /\ visitFires' = (IF Floor(progress') = Floor(progress) THEN visitFires ELSE 0)
                                 + (IF fire THEN 1 ELSE 0)
                /\ finishCalls' = finishCalls + (IF finish THEN 1 ELSE 0)
       ELSE /\ emitted' = {}
            /\ UNCHANGED << activeCheckpointIndex, cyclistVars, visitFires, finishCalls >>
    /\ UNCHANGED << pc, genVars, path, grid, stats, selectedTool, cycleKey >>

\* a frame of any length up to MaxStep
useFrame ==
    \E step \in 0 .. MaxStep : frame(step) /\ fired' = fired

\* a frame that advances the progress by less than one path index; the
\* ordinal it passes to onReachCheckpoint is recorded in fired
useFrameSlow ==
    \E step \in 0 .. (Resolution - 1) :
        /\ frame(step)
        /\ fired' = IF \E k \in 0 .. (CHECKPOINT_COUNT - 1) : << "onReachCheckpoint", k >> \in emitted'
                    THEN Append(fired, CHOOSE k \in 0 .. (CHECKPOINT_COUNT - 1) :
                                           << "onReachCheckpoint", k >> \in emitted')
                    ELSE fired

\* a frame with positive elapsed time: speed * delta is at least one unit
useFramePositive ==
    \E step \in 1 .. MaxStep : frame(step) /\ fired' = fired

\* a Continue button that leaves the card in place
handleContinueCycleKeepCard ==
    /\ pc = "run"
    /\ activeCheckpointIndex # null
    /\ activeCheckpointIndex' = activeCheckpointIndex
    /\ emitted' = {}
    /\ UNCHANGED << pc, genVars, path, grid, stats, selectedTool, cycleKey,
                    cyclistVars, historyVars >>

\* the Continue button of the card
handleContinueCycle ==
    /\ pc = "run"
    /\ activeCheckpointIndex # null
    /\ activeCheckpointIndex' = null
    /\ emitted' = {}
    /\ UNCHANGED << pc, genVars, path, grid, stats, selectedTool, cycleKey,
                    cyclistVars, historyVars >>

\* handleRestart without setActiveCheckpointIndex(null)
handleRestartKeepCard ==
    /\ pc = "run"
    /\ cycleKey < MaxCycleKey
    /\ cycleKey' = cycleKey + 1
    /\ progress' = mountCyclist.progress
    /\ lastTriggeredCheckpoint' = mountCyclist.lastTriggeredCheckpoint
    /\ hasFinished' = mountCyclist.hasFinished
    /\ emitted' = {}
    /\ visitFires' = 0
    /\ finishCalls' = 0
    /\ fired' = << >>
    /\ UNCHANGED << pc, genVars, path, grid, stats, selectedTool, activeCheckpointIndex >>

\* the Restart button: the new key remounts the Cyclist
handleRestart ==
    /\ pc = "run"
    /\ cycleKey < MaxCycleKey
    /\ activeCheckpointIndex' = null
    /\ cycleKey' = cycleKey + 1
    /\ progress' = mountCyclist.progress
    /\ lastTriggeredCheckpoint' = mountCyclist.lastTriggeredCheckpoint
    /\ hasFinished' = mountCyclist.hasFinished
    /\ emitted' = {}
    /\ visitFires' = 0
    /\ finishCalls' = 0
    /\ fired' = << >>
    /\ UNCHANGED << pc, genVars, path, grid, stats, selectedTool >>

NextPath ==
    \/ connectPoints
    \/ generateWindingPath
    \/ createInitialState

SpecPath == InitPath /\ [][NextPath]_vars

\* generateWindingPath runs synchronously: a loop that can continue does
SpecPathFair == SpecPath /\ WF_vars(NextPath)

Next ==
    \/ handleTileClick
    \/ onSelectTool
    \/ gameLoop
    \/ useFrame
    \/ handleContinueCycle
    \/ handleRestart

Spec == Init /\ [][Next]_vars

\* the render loop keeps calling useFrame with a positive delta, and a card
\* that is shown is dismissed with its Continue button
\* (the cyclist and its card alone: clicks, the toolbar and the day timer write
\* none of the variables a frame reads)
NextLive ==
    \/ useFrame
    \/ handleContinueCycle
    \/ handleRestart

SpecLive ==
    /\ Init
    /\ [][NextLive]_vars
    /\ WF_vars(useFramePositive)
    /\ WF_vars(handleContinueCycle)

\* the cyclist alone, with every frame shorter than one path index
NextSlow ==
    \/ useFrameSlow
    \/ handleContinueCycle
    \/ handleRestart

SpecSlow == Init /\ [][NextSlow]_vars

\* ------------------------------------------------------------------ claims
lastIndex == Len(path) - 1
atEnd == lastIndex * Resolution
onPath(px, py) == Point(px, py) \in pathSet(path)
typeAt(px, py) == grid[py][px].buildingType

\* C1: in every path the generator produces, under every outcome of the
\* tie-break, two consecutive cells differ by exactly one unit on exactly one axis.
C1_ConsecutiveCellsAdjacent ==
    pc = "run" =>
        \A k \in 1 .. (Len(path) - 1) :
            \/ Abs(path[k + 1].x - path[k].x) = 1 /\ path[k + 1].y = path[k].y
            \/ Abs(path[k + 1].y - path[k].y) = 1 /\ path[k + 1].x = path[k].x

\* a produced path whose first tie moved along x and whose last tie moved along y
C1_Witness ==
    /\ pc = "run"
    /\ path[2] = Point(1, 14)
    /\ path[Len(path) - 1] = Point(13, 0)

\* C2: every path the generator produces starts at (0,14) and ends at (14,0).
C2_StartsAndEnds ==
    pc = "run" => path[1] = Point(0, 14) /\ path[Len(path)] = Point(14, 0)

\* a produced path whose first tie moved along y and whose last tie moved along x
C2_Witness ==
    /\ pc = "run"
    /\ path[2] = Point(0, 13)
    /\ path[Len(path) - 1] = Point(14, 1)
    /\ grid[0][14].buildingType = "Road"

\* C3: a click with a building tool selected gives the clicked tile the
\* selected type when the tile is None and not on the path, and leaves the grid
\* unchanged in every other case; with a building tool selected the grid
\* changes in no other way.
C3_PlaceOnlyOnEmptyOffPath ==
    [][ selectedTool # "None" =>
          /\ \A c \in ClickCells :
                handleTileClickAt(c.x, c.y) =>
                    IF typeAt(c.x, c.y) = "None" /\ ~onPath(c.x, c.y)
                    THEN grid' = [grid EXCEPT ![c.y][c.x].buildingType = selectedTool]
                    ELSE grid' = grid
          /\ grid' # grid =>
                \E px \in Coords, py \in Coords :
                    /\ typeAt(px, py) = "None"
                    /\ ~onPath(px, py)
                    /\ grid' = [grid EXCEPT ![py][px].buildingType = selectedTool] ]_vars

\* a factory stands on (13,0), a path tile was clicked in vain with a building tool
C3_Witness ==
    /\ ~onPath(13, 0)
    /\ onPath(1, 14)
    /\ typeAt(13, 0) = "Industrial"
    /\ typeAt(1, 14) = "Road"
    /\ selectedTool = "Park"

\* C4: a click with the bulldozer selected sets the clicked tile to None when
\* the tile is not on the path and leaves the grid unchanged when it is; with
\* the bulldozer selected the grid changes in no other way.
C4_BulldozeOnlyOffPath ==
    [][ selectedTool = "None" =>
          /\ \A c \in ClickCells :
                handleTileClickAt(c.x, c.y) =>
                    IF ~onPath(c.x, c.y)
                    THEN grid' = [grid EXCEPT ![c.y][c.x].buildingType = "None"]
                    ELSE grid' = grid
          /\ grid' # grid =>
                \E px \in Coords, py \in Coords :
                    /\ ~onPath(px, py)
                    /\ grid' = [grid EXCEPT ![py][px].buildingType = "None"] ]_vars

\* the house rolled on (1,14) is bulldozed, the path tile (13,0) is still a road
C4_Witness ==
    /\ ~onPath(1, 14)
    /\ onPath(13, 0)
    /\ typeAt(1, 14) = "None"
    /\ typeAt(13, 0) = "Road"
    /\ selectedTool = "None"

\* C5: while the floored progress is a checkpoint index, onReachCheckpoint has
\* been called exactly once since the progress came to that index, also after
\* the card is dismissed and also in the cycle after a restart.
C5_FiresOncePerVisit ==
    IF IndexOf(checkpointIndices, Floor(progress)) # -1
    THEN visitFires = 1
    ELSE visitFires = 0

\* after a restart: still within the first checkpoint's index, card dismissed
C5_Witness ==
    /\ cycleKey = 1
    /\ Floor(progress) = checkpointIndices[1]
    /\ progress % Resolution # 0
    /\ activeCheckpointIndex = null
    /\ visitFires = 1

\* C6: the progress lies in [0, pathLength - 1] in every reachable state.
C6_ProgressInRange == 0 <= progress /\ progress <= atEnd

\* the end of the path is reached
C6_Witness == progress = atEnd /\ hasFinished /\ emitted = {<< "onFinish", -1 >>}

\* C7: a step that is not a restart never lowers the progress.
C7_ProgressMonotone == [][ cycleKey' = cycleKey => progress' >= progress ]_vars

\* the second cycle has passed the second checkpoint
C7_Witness ==
    /\ cycleKey = 1
    /\ Floor(progress) > checkpointIndices[2]
    /\ activeCheckpointIndex = null

\* C8: when the finished flag is set the progress is exactly pathLength - 1,
\* and until a restart the flag stays set and the progress stays there.
C8_FrozenAtEnd ==
    [][ /\ hasFinished' => progress' = atEnd
        /\ (hasFinished /\ cycleKey' = cycleKey) => (hasFinished' /\ progress' = progress) ]_vars

\* finished, and a later step has been taken
C8_Witness == hasFinished /\ progress = atEnd /\ emitted = {}

\* C9: a restart sets the progress to 0, clears the finished flag, the
\* last-triggered guard and the active checkpoint, and leaves the grid unchanged.
C9_RestartResets ==
    [][ cycleKey' # cycleKey =>
            /\ progress' = 0
            /\ ~hasFinished'
            /\ lastTriggeredCheckpoint' = -1
            /\ activeCheckpointIndex' = null
            /\ grid' = grid ]_vars

\* restarted, on an edited grid
C9_Witness ==
    /\ cycleKey = 1
    /\ progress = 0
    /\ lastTriggeredCheckpoint = -1
    /\ typeAt(13, 0) = "Industrial"

\* C10: the five checkpoint indices of a produced path are strictly
\* increasing, greater than 0 and less than the path length.
C10_CheckpointIndicesInterior ==
    pc = "run" =>
        LET indices == getCheckpointIndices(Len(path))
        IN  /\ Len(indices) = 5
            /\ \A k \in 1 .. 5 : 0 < indices[k] /\ indices[k] < Len(path)
            /\ \A k \in 1 .. 4 : indices[k] < indices[k + 1]

\* the indices of a produced path
C10_Witness == pc = "run" /\ getCheckpointIndices(Len(path)) = << 7, 15, 23, 31, 39 >>

\* C11: between two restarts onFinish is called at most once: it is called by
\* the tick that brings the progress from below pathLength - 1 to pathLength - 1
\* and by no other step.
C11_FinishOnce ==
    [][ /\ finishCalls' <= 1
        /\ cycleKey' = cycleKey =>
              (finishCalls' # finishCalls <=> (progress < atEnd /\ progress' = atEnd))
        /\ << "onFinish", -1 >> \in emitted' => finishCalls' = finishCalls + 1 ]_vars

\* finished, onFinish was called once, and a later step has been taken
C11_Witness == finishCalls = 1 /\ hasFinished /\ emitted = {}

\* the Manhattan distance from the current cell to the waypoint of segment i
remaining == Abs(waypoints[i + 2].x - curr.x) + Abs(waypoints[i + 2].y - curr.y)

\* C12: every iteration of the loop of connectPoints lowers the Manhattan
\* distance to the target waypoint by exactly one, a segment is left only at
\* its waypoint, and the generation ends, at the end cell.
C12_GenerationTerminates ==
    /\ [][ /\ path' # path => (i' = i /\ remaining' = remaining - 1)
           /\ i' # i => (curr.x = waypoints[i + 2].x /\ curr.y = waypoints[i + 2].y)
           /\ pc' = "run" => curr' = end ]_vars
    /\ <>(pc = "run")

\* the generation has ended at the end cell after both ties went along y
C12_Witness ==
    /\ pc = "run"
    /\ curr = end
    /\ i = Len(waypoints) - 1
    /\ path[2] = Point(0, 13)
    /\ path[Len(path) - 1] = Point(13, 0)

\* C13: a frame (with the checkpoint and finish callbacks it makes), a day
\* tick, the continue signal and a toolbar selection leave the grid unchanged;
\* a step that changes the grid is none of them: it changes neither the stats,
\* the tool, the card nor the cyclist, and makes no callback.
C13_GridChangedOnlyByClicks ==
    [][ /\ (useFrame \/ gameLoop \/ handleContinueCycle \/ onSelectTool) => grid' = grid
        /\ grid' # grid =>
              /\ stats' = stats
              /\ selectedTool' = selectedTool
              /\ activeCheckpointIndex' = activeCheckpointIndex
              /\ cyclistVars' = cyclistVars
              /\ emitted' = {} ]_vars

\* an edited grid, after a day tick, in the step of the finish
C13_Witness ==
    /\ typeAt(13, 0) = "Industrial"
    /\ stats.day = 2
    /\ hasFinished
    /\ selectedTool = "Park"
    /\ emitted = {<< "onFinish", -1 >>}

\* the checkpoint ordinals (0..4) whose path index is idx
ordinalsAt(idx) == {k \in 0 .. (CHECKPOINT_COUNT - 1) : checkpointIndices[k + 1] = idx}

\* C14: a frame of the running cyclist that brings the floored progress to a
\* checkpoint index other than the last triggered one shows that checkpoint's
\* ordinal as the active checkpoint (the cyclist is paused); a frame that
\* brings it to an index that is no checkpoint leaves the cyclist unpaused.
C14_PausesAtCheckpoint ==
    [][ (isMoving /\ useFrame) =>
          LET idx == Floor(progress')
          IN  IF ordinalsAt(idx) # {}
              THEN lastTriggeredCheckpoint # idx =>
                      /\ activeCheckpointIndex' \subseteq ordinalsAt(idx)
                      /\ activeCheckpointIndex' # null
                      /\ emitted' = {<< "onReachCheckpoint", k >> : k \in activeCheckpointIndex'}
              ELSE activeCheckpointIndex' = null ]_vars

\* paused at the third checkpoint, in the step that fired it
C14_Witness ==
    /\ activeCheckpointIndex = {2}
    /\ Floor(progress) = checkpointIndices[3]
    /\ emitted = {<< "onReachCheckpoint", 2 >>}

\* C15: while a card is shown, a frame and a tile click leave the progress,
\* the finished flag, the guard and the active checkpoint unchanged; the
\* active checkpoint changes only to null, by the continue signal or by a
\* restart; without a restart the progress and the flag stay as they are.
C15_PausedUntilContinueOrRestart ==
    [][ isPaused =>
          /\ (useFrame \/ handleTileClick) =>
                (activeCheckpointIndex' = activeCheckpointIndex /\ cyclistVars' = cyclistVars)
          /\ activeCheckpointIndex' # activeCheckpointIndex =>
                (activeCheckpointIndex' = null /\ (handleContinueCycle \/ handleRestart))
          /\ cycleKey' = cycleKey =>
                (progress' = progress /\ hasFinished' = hasFinished) ]_vars

\* still paused at the first checkpoint after a later step, on an edited grid
C15_Witness ==
    /\ activeCheckpointIndex = {0}
    /\ Floor(progress) = checkpointIndices[1]
    /\ emitted = {}
    /\ typeAt(13, 0) = "Industrial"

\* C16: the grid has GRID_SIZE rows of GRID_SIZE tiles, the tile at row y,
\* column x carries the coordinates (x, y), and every buildingType is one of
\* the six building types, in every reachable state.
C16_GridShape ==
    /\ DOMAIN grid = Coords
    /\ Cardinality(DOMAIN grid) = GRID_SIZE
    /\ \A gy \in Coords :
          /\ DOMAIN grid[gy] = Coords
          /\ \A gx \in Coords :
                grid[gy][gx] \in [x : {gx}, y : {gy}, buildingType : BuildingType]

\* the house rolled on (1,14) has been bulldozed: the tile keeps its coordinates
C16_Witness ==
    /\ typeAt(1, 14) = "None"
    /\ ~onPath(1, 14)
    /\ grid[14][1].x = 1
    /\ grid[14][1].y = 14
    /\ selectedTool = "Industrial"

\* C17: the active checkpoint is null or an ordinal k in 0..4; then
\* PORTFOLIO_CONTENT has an entry at index k, its id is k, and k is the
\* position, in the checkpoint index list, of the path index the cyclist is at.
C17_CardKeyedByCheckpoint ==
    \/ activeCheckpointIndex = null
    \/ \E k \in 0 .. 4 :
          /\ activeCheckpointIndex = {k}
          /\ (k + 1) \in DOMAIN PORTFOLIO_CONTENT
          /\ PORTFOLIO_CONTENT[k + 1] = k
          /\ checkpointIndices[k + 1] = Floor(progress)

\* the last card is shown, in the second cycle
C17_Witness ==
    /\ activeCheckpointIndex = {4}
    /\ Floor(progress) = 39
    /\ cycleKey = 1

\* C18: the money is INITIAL_MONEY in every reachable state, whatever is
\* built or bulldozed and however many days pass.
C18_MoneyNeverChanges == stats.money = INITIAL_MONEY

\* a factory has been built and a day has passed
C18_Witness ==
    /\ typeAt(13, 0) = "Industrial"
    /\ stats.day = 2
    /\ stats.money = INITIAL_MONEY

\* C19: every tile of the path has the buildingType Road in every reachable state.
C19_PathTilesAreRoad ==
    \A k \in 1 .. Len(path) : typeAt(path[k].x, path[k].y) = "Road"

\* the bulldozer is selected, the free click tile is bulldozed, the path tile
\* among the click tiles is a road
C19_Witness ==
    /\ selectedTool = "None"
    /\ onPath(13, 0)
    /\ typeAt(13, 0) = "Road"
    /\ typeAt(1, 14) = "None"
    /\ stats.day = 2

\* the number of checkpoints whose path index the progress has reached
reached == Cardinality({k \in 1 .. CHECKPOINT_COUNT : checkpointIndices[k] <= Floor(progress)})

\* C20: in a cycle whose frames all advance the progress by less than one path
\* index, the ordinals passed to onReachCheckpoint so far are 0, 1, .. in
\* order, one for every checkpoint index reached, none skipped and none
\* repeated; when the cyclist has finished they are 0, 1, 2, 3, 4.
C20_CheckpointsInOrder ==
    /\ fired = [k \in 1 .. reached |-> k - 1]
    /\ hasFinished => fired = << 0, 1, 2, 3, 4 >>

\* the second cycle has finished after its five checkpoints
C20_Witness ==
    /\ cycleKey = 1
    /\ hasFinished
    /\ fired = << 0, 1, 2, 3, 4 >>

\* C21: the cyclist is never finished and paused at once: in every reachable
\* state with the finished flag set the active checkpoint is null, and from a
\* finished state no step but a restart calls onReachCheckpoint, shows a card
\* or moves the last-triggered guard.
C21_NeverFinishedAndPaused ==
    /\ [](hasFinished => activeCheckpointIndex = null)
    /\ [][ (hasFinished /\ cycleKey' = cycleKey) =>
              /\ activeCheckpointIndex' = null
              /\ lastTriggeredCheckpoint' = lastTriggeredCheckpoint
              /\ \A k \in 0 .. (CHECKPOINT_COUNT - 1) : << "onReachCheckpoint", k >> \notin emitted' ]_vars

\* the second cycle has finished, in the step of the finish, past the last
\* checkpoint, no card shown
C21_Witness ==
    /\ hasFinished
    /\ cycleKey = 1
    /\ emitted = {<< "onFinish", -1 >>}
    /\ activeCheckpointIndex = null
    /\ lastTriggeredCheckpoint = -1

\* C22: when frames with positive elapsed time keep coming and every card
\* shown is dismissed with the continue signal, then from every state the
\* cyclist of the current cycle eventually finishes, unless a restart mounts a
\* new one.
C22_EventuallyFinished ==
    \A k \in 0 .. MaxCycleKey : (cycleKey = k) ~> (hasFinished \/ cycleKey # k)

\* the last cycle has finished at the end of the path, and a later step was taken
C22_Witness ==
    /\ cycleKey = MaxCycleKey
    /\ hasFinished
    /\ progress = atEnd
    /\ activeCheckpointIndex = null
    /\ emitted = {}

\* C23: every path the generator produces, under every outcome of every
\* tie-break, has exactly 47 cells, and its checkpoint indices are
\* 7, 15, 23, 31, 39.
C23_LengthIndependentOfTieBreak ==
    pc = "run" =>
        /\ Len(path) = 47
        /\ getCheckpointIndices(Len(path)) = << 7, 15, 23, 31, 39 >>
        /\ \A rnd \in BOOLEAN : Len(windingPath(rnd)) = Len(path)

\* a produced path whose three ties went along x, along y and along x
C23_Witness ==
    /\ pc = "run"
    /\ path[2] = Point(1, 14)
    /\ path[4] = Point(1, 12)
    /\ path[Len(path) - 1] = Point(14, 1)
    /\ Len(path) = 47

\* C24: every cell of the path under construction and of every produced path
\* has both coordinates in 0..14, and no cell occurs twice in it: the set of
\* the keys "x,y" of its cells has as many members as the path has entries.
C24_InsideGridNoRevisit ==
    /\ \A k \in 1 .. Len(path) : path[k].x \in Coords /\ path[k].y \in Coords
    /\ \A j, k \in 1 .. Len(path) : path[j] = path[k] => j = k
    /\ Cardinality(pathKeys(path)) = Len(path)

\* a produced path whose three ties went along y, along x and along y; it
\* touches the left, the bottom, the right and the top edge of the grid
C24_Witness ==
    /\ pc = "run"
    /\ path[2] = Point(0, 13)
    /\ path[4] = Point(2, 13)
    /\ path[Len(path) - 1] = Point(13, 0)
    /\ \E k \in 1 .. Len(path) : path[k].x = GRID_SIZE - 1
    /\ \E k \in 1 .. Len(path) : path[k].y = 0
    /\ Cardinality(pathKeys(path)) = 47

\* C25: after a click on the tile at (x, y), accepted or refused, the grid is
\* the grid before the click but for the buildingType of the tile at (x, y);
\* the click changes neither the path, the selected tool, the progress,
\* the finished flag, the last-triggered guard, the active checkpoint, the
\* cycle key nor the stats.
C25_ClickChangesOneTile ==
    [][ \A c \in ClickCells :
          handleTileClickAt(c.x, c.y) =>
              /\ grid' = [grid EXCEPT ![c.y][c.x].buildingType = grid'[c.y][c.x].buildingType]
              /\ path' = path
              /\ selectedTool' = selectedTool
              /\ progress' = progress
              /\ hasFinished' = hasFinished
              /\ lastTriggeredCheckpoint' = lastTriggeredCheckpoint
              /\ activeCheckpointIndex' = activeCheckpointIndex
              /\ cycleKey' = cycleKey
              /\ stats' = stats ]_vars

\* the second card is shown over a grid whose free click tile was bulldozed,
\* the bulldozer is still selected, the path tile among the click tiles is a road
C25_Witness ==
    /\ ~onPath(1, 14)
    /\ typeAt(1, 14) = "None"
    /\ onPath(13, 0)
    /\ typeAt(13, 0) = "Road"
    /\ selectedTool = "None"
    /\ activeCheckpointIndex = {1}
    /\ emitted = {}

====
